---- MODULE Spec2Model ----
(***************************************************************************)
(* A model of OpenMOC's TraverseTracks (src/src/TraverseTracks.cpp): the   *)
(* two traversal entry points, the explicit-2D loops they dispatch to, the *)
(* per-segment helper and the per-track hook, executed by a team of OpenMP *)
(* threads that share the orphaned "omp for" worksharing loops.            *)
(***************************************************************************)
EXTENDS Integers, Sequences, FiniteSets, TLC

\* ------------------------------------------------------------------ bounds
MaxAzim    == 4   \* num_azim ranges over 0..MaxAzim
MaxXY      == 2   \* getNumX(a)+getNumY(a) ranges over 0..MaxXY
MaxSegs    == 2   \* a track holds 0..MaxSegs segments
MaxGroups  == 3   \* getNumParallelTrackGroups() ranges over 0..MaxGroups
MaxWorkers == 2   \* size of the OpenMP team, 1..MaxWorkers
MaxCalls   == 2   \* traversal calls made on one engine
MaxFairCalls == 1 \* traversal calls made where termination is checked

\* --------------------------------------------------------------- constants
EXPLICIT_2D == "EXPLICIT_2D"
UNSUPPORTED == "UNSUPPORTED"      \* any mode value the switch has no case for
NULL        == "NULL"             \* kernel == NULL
Kernels     == {NULL, "counting", "regenerating"}
LOOP_ALL    == "loopOverTracks"
LOOP_GROUP  == "loopOverTracksByParallelGroup"

VARIABLES
  \* the Track Store (TrackGenerator), as the engine reads it
  num_azim,           \* getNumAzim()
  numXY,              \* a |-> getNumX(a) + getNumY(a)
  segments,           \* track |-> its segment sequence (getSegments())
  tracksByGroup,      \* getTracksByParallelGroup(): the flattened array
  groupSizes,         \* i |-> getNumTracksByParallelGroup(i-1)
  \* the engine
  segment_formation,  \* _segment_formation, cached by the constructor
  \* the traversal call in progress
  entry,              \* "none" or the entry point being executed
  kernel,             \* the MOCKernel* argument: NULL or a kind of kernel
  shared,             \* whether the threads all pass one kernel instance
  nthreads,           \* size of the team executing the call
  callNo,             \* traversal calls started so far
  \* per-thread position and locals
  pc, a, g, min_track, max_track, track, s, queue, inst,
  \* the OpenMP runtime's current worksharing construct
  ws,
  \* what the kernel and the hook have observed
  tlog,               \* track |-> the calls made for it, in order
  klog,               \* kernel instance |-> the calls it received, in order
  hist                \* one summary per completed call

storeVars  == <<num_azim, numXY, tracksByGroup, groupSizes>>
callVars   == <<entry, kernel, shared, nthreads, callNo, segment_formation>>
localVars  == <<a, g, min_track, max_track, track, s, queue, inst>>
vars == <<num_azim, numXY, segments, tracksByGroup, groupSizes,
          segment_formation, entry, kernel, shared, nthreads, callNo,
          pc, a, g, min_track, max_track, track, s, queue, inst,
          ws, tlog, klog, hist>>

Workers == 1..nthreads
NoTrack == <<-1, -1>>

\* ------------------------------------------------------------ Track Store

\* One segment of a track: the five fields the kernel consumes.  gen tells
\* the ray-traced sequence (0) from a kernel-regenerated one (1).
Segment(t, k, gen) ==
  [length           |-> k + 1 + gen,
   material         |-> (t[1] + k) % 2,
   region_id        |-> 100 * gen + 10 * t[1] + 4 * t[2] + k,
   cmfd_surface_fwd |-> IF k = 0 THEN -1 ELSE k,
   cmfd_surface_bwd |-> IF k = 0 THEN k + 7 ELSE -1]

\* The number of segments ray tracing left on track t: between 0 and
\* MaxSegs, unequal on neighbouring tracks.
RayTracedSegments(t) == (t[1] + t[2] + 1) % (MaxSegs + 1)

\* The tracks the store holds: rows 0 .. num_azim/2 - 1 of the 2D array.
StoreTracks(n, xy) ==
  {t \in (0..(MaxAzim - 1)) \X (0..(MaxXY - 1)) :
     t[1] < n \div 2 /\ t[2] < xy[t[1]]}

\* The place of track t in the flattened array: by position in its angle
\* first, by angle second, so that a group holds tracks of several angles.
GroupKey(t) == t[2] * (MaxAzim + 1) + t[1]

RECURSIVE SeqOfSet(_)
\* The elements of S as a sequence, ascending under GroupKey.
SeqOfSet(S) ==
  IF S = {} THEN <<>>
  ELSE LET m == CHOOSE x \in S : \A y \in S : GroupKey(x) <= GroupKey(y)
       IN  <<m>> \o SeqOfSet(S \ {m})

RECURSIVE SumSeq(_)
SumSeq(q) == IF q = <<>> THEN 0 ELSE Head(q) + SumSeq(Tail(q))

\* The flattened array the store hands out: every track exactly once.
FlatOrder(T) == SeqOfSet(T)

\* The per-group track counts the store may report: they sum to the number
\* of tracks.
GroupCounts(n) ==
  UNION {{q \in [1..G -> 0..n] : SumSeq(q) = n} : G \in 0..MaxGroups}

\* ------------------------------------------------------- store accessors

\* tracks_2D[a][i]
Tracks2D(angle, i) == <<angle, i>>

\* tracks[track_id]
TrackAt(track_id) ==
  IF track_id + 1 \in DOMAIN tracksByGroup
  THEN tracksByGroup[track_id + 1] ELSE NoTrack

\* track->getSegments()
GetSegments(t) == IF t \in DOMAIN segments THEN segments[t] ELSE <<>>

\* track->getNumSegments()
GetNumSegments(t) == Len(GetSegments(t))

\* _track_generator->getNumParallelTrackGroups()
GetNumParallelTrackGroups == Len(groupSizes)

\* _track_generator->getNumTracksByParallelGroup(i)
GetNumTracksByParallelGroup(i) ==
  IF i + 1 \in DOMAIN groupSizes THEN groupSizes[i + 1] ELSE 0

\* _track_generator->getNumX(a) + _track_generator->getNumY(a)
GetNumXY(angle) == IF angle \in DOMAIN numXY THEN numXY[angle] ELSE 0

\* ------------------------------------------------------------- the kernel

\* The number of segments a regenerating kernel's ray tracing gives track t.
RegeneratedSegments(t) == (t[1] + 2 * t[2] + 2) % (MaxSegs + 1)

\* What kernel->newTrack(track) leaves as the track's segment sequence: a
\* regenerating kernel traces the track again, any other leaves it alone.
KernelNewTrack(k, t, segs) ==
  IF k = "regenerating"
  THEN [j \in 1..RegeneratedSegments(t) |-> Segment(t, j - 1, 1)]
  ELSE segs

\* The arguments of kernel->execute for one segment.
ExecuteArgs(seg) ==
  [length           |-> seg.length,
   material         |-> seg.material,
   region_id        |-> seg.region_id,
   cmfd_surface_fwd |-> seg.cmfd_surface_fwd,
   cmfd_surface_bwd |-> seg.cmfd_surface_bwd]

\* ------------------------------------------------------------ the history

Event(op, w, payload) == [op |-> op, w |-> w, arg |-> payload]

LogOf(t) == IF t \in DOMAIN tlog THEN tlog[t] ELSE <<>>

Logged(t, e) ==
  [x \in DOMAIN tlog \cup {t} |->
     IF x = t THEN Append(LogOf(t), e) ELSE tlog[x]]

\* A call's observations without the thread ids.
Summary ==
  [x \in DOMAIN tlog |->
     [k \in 1..Len(tlog[x]) |-> <<tlog[x][k].op, tlog[x][k].arg>>]]

\* ------------------------------------------------------------------- Init

\* The state after construction and before the first call; sh tells whether
\* the threads of a team will pass one kernel instance or one each.
InitWith(sh) ==
  /\ shared = sh
  /\ num_azim \in 0..MaxAzim
  /\ \E base \in [0..1 -> 0..MaxXY] :
       numXY = [angle \in 0..(MaxAzim - 1) |-> base[angle % 2]]
  /\ segments = [t \in StoreTracks(num_azim, numXY) |->
                   [k \in 1..RayTracedSegments(t) |-> Segment(t, k - 1, 0)]]
  /\ tracksByGroup = FlatOrder(StoreTracks(num_azim, numXY))
  /\ groupSizes \in GroupCounts(Len(tracksByGroup))
  /\ segment_formation \in {EXPLICIT_2D, UNSUPPORTED}
  /\ kernel \in Kernels
  /\ nthreads \in 1..MaxWorkers
  /\ entry = "none"
  /\ callNo = 0
  /\ pc = [w \in Workers |-> "idle"]
  /\ a = [w \in Workers |-> 0]
  /\ g = [w \in Workers |-> 0]
  /\ min_track = [w \in Workers |-> 0]
  /\ max_track = [w \in Workers |-> 0]
  /\ track = [w \in Workers |-> NoTrack]
  /\ s = [w \in Workers |-> 0]
  /\ queue = [w \in Workers |-> <<>>]
  /\ inst = [w \in Workers |-> 0]
  /\ ws = [inst |-> -1, nxt |-> 0, hi |-> 0]
  /\ tlog = [x \in {} |-> <<>>]
  /\ klog = [k \in Workers |-> <<>>]
  /\ hist = <<>>

\* Kernels are per-thread: each thread of a team passes its own instance.
Init == InitWith(FALSE)

\* The threads of a team all pass the same instance of the counting kernel.
SharedInit == InitWith(TRUE) /\ kernel = "counting"

\* ---------------------------------------------------------- the caller

\* A physics stage calls one of the two entry points; every thread of the
\* team makes the call, with a kernel of the same kind or with none.
StartCall(e) ==
  /\ entry = "none"
  /\ callNo < MaxCalls
  /\ entry' = e
  /\ callNo' = callNo + 1
  /\ pc' = [w \in Workers |-> "call"]
  /\ tlog' = [x \in {} |-> <<>>]
  /\ klog' = [k \in Workers |-> <<>>]
  /\ ws' = [inst |-> -1, nxt |-> 0, hi |-> 0]
  /\ inst' = [w \in Workers |-> 0]
  /\ UNCHANGED <<storeVars, segments, segment_formation, kernel, shared,
                 nthreads, a, g, min_track, max_track, track, s, queue, hist>>

\* Every thread has returned: the call is over for the caller.
EndCall ==
  /\ entry # "none"
  /\ \A w \in Workers : pc[w] = "returned"
  /\ hist' = Append(hist, [entry |-> entry, visits |-> Summary])
  /\ entry' = "none"
  /\ pc' = [w \in Workers |-> "idle"]
  /\ UNCHANGED <<storeVars, segments, segment_formation, kernel, shared,
                 nthreads, callNo, localVars, ws, tlog, klog>>

\* ------------------------------------------------------- the dispatchers

\* switch (_segment_formation): the one case there is.
SupportedMode(mode) == mode = EXPLICIT_2D

\* The switch written with an assignment: switch (_segment_formation =
\* EXPLICIT_2D).
ModeAfterDispatch_Assigned(mode) == EXPLICIT_2D

\* switch (_segment_formation): the cached mode is read, not written.
ModeAfterDispatch(mode) == mode

\* TraverseTracks::loopOverTracks
LoopOverTracks(w) ==
  /\ pc[w] = "call"
  /\ entry = LOOP_ALL
  /\ IF SupportedMode(segment_formation)
     THEN /\ pc' = [pc EXCEPT ![w] = "angle"]
          /\ a' = [a EXCEPT ![w] = 0]
     ELSE /\ pc' = [pc EXCEPT ![w] = "returned"]
          /\ a' = a
  /\ segment_formation' = ModeAfterDispatch(segment_formation)
  /\ UNCHANGED <<storeVars, segments, entry, kernel, shared, nthreads,
                 callNo, g, min_track, max_track, track, s, queue, inst, ws,
                 tlog, klog, hist>>

\* The bounds declared static: a call starts where the last one stopped.
FirstTrack_Static(w) == max_track[w]

\* int min_track = 0; int max_track = 0;
FirstTrack(w) == 0

\* TraverseTracks::loopOverTracksByParallelGroup
LoopOverTracksByParallelGroup(w) ==
  /\ pc[w] = "call"
  /\ entry = LOOP_GROUP
  /\ IF SupportedMode(segment_formation)
     THEN /\ pc' = [pc EXCEPT ![w] = "group"]
          /\ g' = [g EXCEPT ![w] = 0]
          /\ min_track' = [min_track EXCEPT ![w] = FirstTrack(w)]
          /\ max_track' = [max_track EXCEPT ![w] = FirstTrack(w)]
     ELSE /\ pc' = [pc EXCEPT ![w] = "returned"]
          /\ UNCHANGED <<g, min_track, max_track>>
  /\ segment_formation' = ModeAfterDispatch(segment_formation)
  /\ UNCHANGED <<storeVars, segments, entry, kernel, shared, nthreads,
                 callNo, a, track, s, queue, inst, ws, tlog, klog, hist>>

\* ------------------------------------------------- the worksharing loops

\* A thread meets the "omp for" that is its inst-th worksharing construct:
\* the first thread to arrive sets up its iteration range lo .. hi-1.
Encounter(w, lo, hi) ==
  IF ws.inst = inst[w] THEN ws ELSE [inst |-> inst[w], nxt |-> lo, hi |-> hi]

\* The loop over every angle instead of the first half.
NumAngles_All(n) == n

\* for (int a=0; a < num_azim/2; a++)
NumAngles(n) == n \div 2

\* loopOverTracks2D: the head of the loop over azimuthal angles.
AngleLoop(w) ==
  /\ pc[w] = "angle"
  /\ IF a[w] < NumAngles(num_azim)
     THEN /\ pc' = [pc EXCEPT ![w] = "for"]
          /\ ws' = Encounter(w, 0, GetNumXY(a[w]))
     ELSE /\ pc' = [pc EXCEPT ![w] = "returned"]
          /\ ws' = ws
  /\ UNCHANGED <<storeVars, segments, callVars, localVars, tlog, klog, hist>>

\* min_track never advanced: every group starts again at track 0.
NextMinTrack_Stale(mint, maxt) == mint

\* min_track = max_track;
NextMinTrack(mint, maxt) == maxt

\* The upper bound assigned instead of advanced.
NextMaxTrack_Assign(maxt, n) == n

\* max_track += getNumTracksByParallelGroup(i);
NextMaxTrack(maxt, n) == maxt + n

\* loopOverTracksByParallelGroup2D: the head of the loop over groups.
GroupLoop(w) ==
  /\ pc[w] = "group"
  /\ IF g[w] < GetNumParallelTrackGroups
     THEN LET lo == NextMinTrack(min_track[w], max_track[w])
              hi == NextMaxTrack(max_track[w],
                                 GetNumTracksByParallelGroup(g[w]))
          IN  /\ min_track' = [min_track EXCEPT ![w] = lo]
              /\ max_track' = [max_track EXCEPT ![w] = hi]
              /\ pc' = [pc EXCEPT ![w] = "for"]
              /\ ws' = Encounter(w, lo, hi)
     ELSE /\ pc' = [pc EXCEPT ![w] = "returned"]
          /\ UNCHANGED <<min_track, max_track, ws>>
  /\ UNCHANGED <<storeVars, segments, callVars, a, g, track, s, queue, inst,
                 tlog, klog, hist>>

InLoop(w) ==
  /\ pc[w] \in {"for", "newTrack", "trace", "onTrack", "hook"}
  /\ ws.inst = inst[w]

\* A runtime that hands the last iteration of a chunk out again.
AfterChunk_Repeat(nxt, k) == nxt + k - 1

\* The first iteration not yet handed out once a chunk of k is.
AfterChunk(nxt, k) == nxt + k

\* The chunks the runtime may hand to thread w now.  schedule(guided) hands
\* out a chunk on demand, to a thread that has run out of work; the default
\* schedule may fix a thread's share before the thread runs it.
ChunkSizes(w) ==
  IF entry = LOOP_GROUP
  THEN IF pc[w] = "for" /\ queue[w] = <<>> THEN 1..(ws.hi - ws.nxt) ELSE {}
  ELSE {1}

\* #pragma omp for: the runtime hands the next iterations to a thread.
Assign(w) ==
  /\ InLoop(w)
  /\ ws.nxt < ws.hi
  /\ \E k \in ChunkSizes(w) :
       /\ queue' = [queue EXCEPT
                      ![w] = @ \o [j \in 1..k |-> ws.nxt + j - 1]]
       /\ ws' = [ws EXCEPT !.nxt = AfterChunk(ws.nxt, k)]
  /\ UNCHANGED <<storeVars, segments, callVars, pc, a, g, min_track,
                 max_track, track, s, inst, tlog, klog, hist>>

\* The NULL test left out.
KernelPresent_Always(k) == TRUE

\* if (kernel != NULL)
KernelPresent(k) == k # NULL

\* The body of either loop begins one of the thread's iterations:
\* Track* track_2D = &tracks_2D[a][i];   Track* track = tracks[track_id];
BeginIteration(w) ==
  /\ pc[w] = "for"
  /\ queue[w] # <<>>
  /\ track' = [track EXCEPT ![w] = IF entry = LOOP_ALL
                                      THEN Tracks2D(a[w], Head(queue[w]))
                                      ELSE TrackAt(Head(queue[w]))]
  /\ queue' = [queue EXCEPT ![w] = Tail(@)]
  /\ pc' = [pc EXCEPT ![w] = IF KernelPresent(kernel) THEN "newTrack"
                                                       ELSE "onTrack"]
  /\ UNCHANGED <<storeVars, segments, callVars, a, g, min_track, max_track,
                 s, inst, ws, tlog, klog, hist>>

\* The engine making a copy of the kernel for each thread.
KernelOf_PerThread(w) == w

\* The kernel instance thread w's calls go to: the one its kernel argument
\* points to.
KernelOf(w) == IF shared THEN 1 ELSE w

\* Kernel instance KernelOf(w) receives a call made for track t.
Received(w, op, t, payload) ==
  [klog EXCEPT ![KernelOf(w)] =
     Append(@, [op |-> op, track |-> t, arg |-> payload])]

\* kernel->newTrack(track)
NewTrack(w) ==
  /\ pc[w] = "newTrack"
  /\ tlog' = Logged(track[w], Event("newTrack", w, <<>>))
  /\ klog' = Received(w, "newTrack", track[w], <<>>)
  /\ segments' = IF track[w] \in DOMAIN segments
                 THEN [segments EXCEPT ![track[w]] =
                         KernelNewTrack(kernel, track[w], @)]
                 ELSE segments
  /\ s' = [s EXCEPT ![w] = 0]
  /\ pc' = [pc EXCEPT ![w] = "trace"]
  /\ UNCHANGED <<storeVars, callVars, a, g, min_track, max_track, track,
                 queue, inst, ws, hist>>

\* The loop bound off by one: the last segment is never executed.
MoreSegments_SkipLast(t, k) == k + 1 < GetNumSegments(t)

\* The loop written as a do-while: its body runs before the bound is tested.
MoreSegments_DoWhile(t, k) == k = 0 \/ k < GetNumSegments(t)

\* for (int s=0; s < track->getNumSegments(); s++)
MoreSegments(t, k) == k < GetNumSegments(t)

\* track->getSegment(s); an index past the end reads the slot behind the
\* last segment.
GetSegment(t, k) ==
  IF k + 1 \in DOMAIN GetSegments(t) THEN GetSegments(t)[k + 1]
                                     ELSE Segment(t, k, 0)

\* traceSegmentsExplicit: one turn of its loop, or its return.
TraceSegmentsExplicit(w) ==
  /\ pc[w] = "trace"
  /\ IF MoreSegments(track[w], s[w])
     THEN /\ tlog' = Logged(track[w],
                 Event("execute", w,
                       <<ExecuteArgs(GetSegment(track[w], s[w]))>>))
          /\ klog' = Received(w, "execute", track[w],
                              <<ExecuteArgs(GetSegment(track[w], s[w]))>>)
          /\ s' = [s EXCEPT ![w] = @ + 1]
          /\ pc' = pc
     ELSE /\ pc' = [pc EXCEPT ![w] = "onTrack"]
          /\ UNCHANGED <<tlog, klog, s>>
  /\ UNCHANGED <<storeVars, segments, callVars, a, g, min_track, max_track,
                 track, queue, inst, ws, hist>>

\* The segment sequence fetched before the kernel ran: what ray tracing
\* had left on the track.
HookSegments_BeforeNewTrack(t) ==
  [k \in 1..RayTracedSegments(t) |-> Segment(t, k - 1, 0)]

\* segment* segments = track->getSegments(), after the kernel calls
HookSegments(t) == GetSegments(t)

\* segment* segments = track->getSegments(); onTrack(track, segments);
OnTrack(w) ==
  /\ pc[w] = "onTrack"
  /\ tlog' = Logged(track[w], Event("onTrack", w, HookSegments(track[w])))
  /\ pc' = [pc EXCEPT ![w] = "hook"]
  /\ UNCHANGED <<storeVars, segments, callVars, localVars, ws, klog, hist>>

\* TraverseTracks::onTrack, the default hook, returns.
OnTrackReturn(w) ==
  /\ pc[w] = "hook"
  /\ tlog' = Logged(track[w], Event("return", w, <<>>))
  /\ track' = [track EXCEPT ![w] = NoTrack]
  /\ s' = [s EXCEPT ![w] = 0]
  /\ pc' = [pc EXCEPT ![w] = "for"]
  /\ UNCHANGED <<storeVars, segments, callVars, a, g, min_track, max_track,
                 queue, inst, ws, klog, hist>>

\* A thread with no iteration left reaches the end of the "omp for".
EndFor(w) ==
  /\ pc[w] = "for"
  /\ queue[w] = <<>>
  /\ ws.inst = inst[w] => ws.nxt >= ws.hi
  /\ pc' = [pc EXCEPT ![w] = "barrier"]
  /\ UNCHANGED <<storeVars, segments, callVars, localVars, ws, tlog, klog,
                 hist>>

\* The barrier as a nowait clause would leave it: no thread waits.
BarrierReleased_Nowait(w) == pc[w] = "barrier"

\* The implicit barrier that ends an "omp for" without nowait: thread w may
\* leave once every thread of the team has reached it.
BarrierReleased(w) ==
  \A v \in Workers :
    \/ inst[v] > inst[w]
    \/ inst[v] = inst[w] /\ pc[v] = "barrier"

\* The thread leaves the barrier for the next turn of the outer loop
\* (a++ or i++).
Barrier(w) ==
  /\ pc[w] = "barrier"
  /\ BarrierReleased(w)
  /\ inst' = [inst EXCEPT ![w] = @ + 1]
  /\ IF entry = LOOP_ALL
     THEN /\ a' = [a EXCEPT ![w] = @ + 1]
          /\ pc' = [pc EXCEPT ![w] = "angle"]
          /\ g' = g
     ELSE /\ g' = [g EXCEPT ![w] = @ + 1]
          /\ pc' = [pc EXCEPT ![w] = "group"]
          /\ a' = a
  /\ UNCHANGED <<storeVars, segments, callVars, min_track, max_track, track,
                 s, queue, ws, tlog, klog, hist>>

\* ------------------------------------------------------ the specification

\* One step of thread w.
Step(w) ==
  \/ LoopOverTracks(w)
  \/ LoopOverTracksByParallelGroup(w)
  \/ AngleLoop(w)
  \/ GroupLoop(w)
  \/ Assign(w)
  \/ BeginIteration(w)
  \/ NewTrack(w)
  \/ TraceSegmentsExplicit(w)
  \/ OnTrack(w)
  \/ OnTrackReturn(w)
  \/ EndFor(w)
  \/ Barrier(w)

Next ==
  \/ \E e \in {LOOP_ALL, LOOP_GROUP} : StartCall(e)
  \/ EndCall
  \/ \E w \in Workers : LoopOverTracks(w)
  \/ \E w \in Workers : LoopOverTracksByParallelGroup(w)
  \/ \E w \in Workers : AngleLoop(w)
  \/ \E w \in Workers : GroupLoop(w)
  \/ \E w \in Workers : Assign(w)
  \/ \E w \in Workers : BeginIteration(w)
  \/ \E w \in Workers : NewTrack(w)
  \/ \E w \in Workers : TraceSegmentsExplicit(w)
  \/ \E w \in Workers : OnTrack(w)
  \/ \E w \in Workers : OnTrackReturn(w)
  \/ \E w \in Workers : EndFor(w)
  \/ \E w \in Workers : Barrier(w)

Spec == Init /\ [][Next]_vars

\* --------------------------------------------------------------- fairness

\* Every thread of the team keeps running: the OpenMP runtime starves none.
Fairness == \A w \in 1..MaxWorkers : WF_vars(w \in Workers /\ Step(w))

FairNext == Next /\ callNo' <= MaxFairCalls

FairSpec == Init /\ [][FairNext]_vars /\ Fairness

\* --------------------------------------------------------------- failures

\* The calls that can fail: kernel->newTrack, kernel->execute, and the
\* onTrack hook while it runs.
Raises(w) ==
  \/ pc[w] = "newTrack"
  \/ pc[w] = "trace" /\ MoreSegments(track[w], s[w])
  \/ pc[w] = "hook"

\* The loop body inside a handler that drops the exception: the thread goes
\* on with its next iteration.
Unwound_Swallowed(w, out) == [pc EXCEPT ![w] = "for"]

\* Neither loop body nor any function of the engine has a try block, so the
\* exception leaves the "omp for".  OpenMP gives that no meaning; what a
\* build does is either to unwind the throwing thread up to the caller of
\* the traversal, or to end the process (std::terminate).
Unwound(w, out) ==
  [v \in Workers |->
     IF out = "terminate" THEN "terminated"
     ELSE IF v = w THEN "thrown" ELSE pc[v]]

\* newTrack, execute or onTrack throws on thread w.
Fail(w) ==
  /\ Raises(w)
  /\ \E out \in {"unwind", "terminate"} : pc' = Unwound(w, out)
  /\ tlog' = Logged(track[w], Event("throw", w, <<>>))
  /\ UNCHANGED <<storeVars, segments, callVars, localVars, ws, klog, hist>>

FailNext ==
  /\ Next \/ \E w \in Workers : Fail(w)
  /\ callNo' <= MaxFairCalls

FailSpec == Init /\ [][FailNext]_vars

\* ---------------------------------------------------------- a shared kernel

\* One call by a team whose threads all pass the same kernel instance.
SharedSpec == SharedInit /\ [][FairNext]_vars

\* ------------------------------------------------- vocabulary of the claims

\* How many calls of kind op track t has received in the current call.
Calls(t, op) == Cardinality({k \in 1..Len(LogOf(t)) : LogOf(t)[k].op = op})

Started(t)  == LogOf(t) # <<>>
Finished(t) == Started(t) /\ LogOf(t)[Len(LogOf(t))].op = "return"
InFlight(t) == Started(t) /\ ~Finished(t)

\* The tracks each traversal is to visit, read off the Track Store.
RangeAll ==
  {t \in (0..MaxAzim) \X (0..MaxXY) :
     t[1] < num_azim \div 2 /\ t[2] < numXY[t[1]]}
RangeGroup == {tracksByGroup[k] : k \in 1..SumSeq(groupSizes)}
Range == IF entry = LOOP_ALL THEN RangeAll ELSE RangeGroup

\* The parallel group that holds global track index id (from 0).
GroupOfIndex(id) ==
  CHOOSE i \in 1..Len(groupSizes) :
    /\ SumSeq(SubSeq(groupSizes, 1, i - 1)) <= id
    /\ id < SumSeq(SubSeq(groupSizes, 1, i))
GroupOf(t) ==
  GroupOfIndex((CHOOSE k \in 1..Len(tracksByGroup) : tracksByGroup[k] = t) - 1)

AllReturned == entry # "none" /\ \A w \in Workers : pc[w] = "returned"
Explicit2D  == segment_formation = EXPLICIT_2D

\* ---------------------------------------------------------------- claims

\* C1: in loopOverTracksByParallelGroup, whatever the team, no call
\* (newTrack, execute, onTrack) is made for a track of group j while some
\* track of an earlier group i < j has not had its onTrack return; hence all
\* tracks in flight at one moment belong to one group.
C1_GroupsInSequence ==
  entry = LOOP_GROUP =>
    /\ \A t1 \in RangeGroup : \A t2 \in DOMAIN tlog :
         (t2 \in RangeGroup /\ GroupOf(t1) < GroupOf(t2)) => Finished(t1)
    /\ \A t1 \in DOMAIN tlog : \A t2 \in DOMAIN tlog :
         (InFlight(t1) /\ InFlight(t2)) =>
           (t1 \in RangeGroup /\ t2 \in RangeGroup /\ GroupOf(t1) = GroupOf(t2))

\* Two threads each have a track of the second of two groups in flight.
C1_Witness ==
  /\ entry = LOOP_GROUP
  /\ nthreads = 2
  /\ \E t1 \in DOMAIN tlog : \E t2 \in DOMAIN tlog :
       /\ t1 # t2 /\ InFlight(t1) /\ InFlight(t2)
       /\ \E t0 \in DOMAIN tlog : GroupOf(t0) < GroupOf(t1)

\* C2: in a call of either entry point under EXPLICIT_2D, with or without a
\* kernel and whatever the team, onTrack is never entered twice for a track,
\* all calls made for a track come from one thread, no track outside the
\* traversal's range is touched, and once every thread has returned each
\* track of the range has had onTrack exactly once.
C2_EachTrackOnce ==
  (entry # "none" /\ Explicit2D) =>
    /\ \A t \in DOMAIN tlog :
         /\ t \in Range
         /\ Calls(t, "onTrack") <= 1
         /\ \A k \in 1..Len(tlog[t]) : tlog[t][k].w = tlog[t][1].w
    /\ AllReturned => \A t \in Range : Calls(t, "onTrack") = 1

\* A call by two threads has ended, each thread having visited some of the
\* three or more tracks.
C2_Witness ==
  /\ AllReturned
  /\ Cardinality(Range) >= 3
  /\ \A w \in 1..2 : \E t \in DOMAIN tlog : tlog[t][1].w = w

\* What a track with segment sequence segs is to receive, in order, when a
\* kernel is present.
ExpectedCalls(segs) ==
  <<<<"newTrack", <<>>>>>>
    \o [k \in 1..Len(segs) |-> <<"execute", <<segs[k]>>>>]
    \o <<<<"onTrack", segs>>, <<"return", <<>>>>>>

\* C3: with a kernel present, the calls made for a track are at every moment
\* a prefix of: newTrack once, execute for segment 0, 1, ... numSegments-1
\* with that segment's five fields, then onTrack with the segment sequence,
\* then its return; so onTrack never starts before the last execute.
C3_NewTrackExecuteOnTrack ==
  kernel # NULL =>
    \A t \in DOMAIN tlog :
      LET want == ExpectedCalls(segments[t])
      IN  /\ Len(tlog[t]) <= Len(want)
          /\ \A k \in 1..Len(tlog[t]) :
               <<tlog[t][k].op, tlog[t][k].arg>> = want[k]

\* A track of two segments has received all its calls.
C3_Witness ==
  /\ kernel # NULL
  /\ \E t \in DOMAIN tlog :
       /\ Len(segments[t]) = 2
       /\ Finished(t)
       /\ Calls(t, "execute") = 2

\* How often a completed call made the call <<op, arg>> for track t.
Times(visits, t, op, arg) ==
  IF t \in DOMAIN visits
  THEN Cardinality({k \in 1..Len(visits[t]) : visits[t][k] = <<op, arg>>})
  ELSE 0

\* The (track, argument) pairs of the calls of kind op a completed call made.
Pairs(visits, op) ==
  UNION {{<<t, visits[t][k][2]>> :
            k \in {j \in 1..Len(visits[t]) : visits[t][j][1] = op}} :
         t \in DOMAIN visits}

SameMultiset(v1, v2, op) ==
  \A p \in Pairs(v1, op) \cup Pairs(v2, op) :
    Times(v1, p[1], op, p[2]) = Times(v2, p[1], op, p[2])

\* C4: on one Track Store and with one kernel, a completed loopOverTracks
\* and a completed loopOverTracksByParallelGroup passed the same multiset of
\* (track, segment) pairs to execute and the same multiset of tracks (with
\* their segment sequences) to onTrack.
C4_SameVisits ==
  \A i \in DOMAIN hist : \A j \in DOMAIN hist :
    (hist[i].entry = LOOP_ALL /\ hist[j].entry = LOOP_GROUP) =>
      /\ SameMultiset(hist[i].visits, hist[j].visits, "execute")
      /\ SameMultiset(hist[i].visits, hist[j].visits, "onTrack")
      /\ SameMultiset(hist[i].visits, hist[j].visits, "newTrack")

\* Both traversals have been completed over four tracks in two groups, and
\* execute was called.
C4_Witness ==
  /\ Len(hist) = 2
  /\ hist[1].entry # hist[2].entry
  /\ Len(groupSizes) >= 2
  /\ Cardinality(DOMAIN hist[1].visits) = 4
  /\ \E t \in DOMAIN hist[1].visits :
       /\ Len(segments[t]) = 2
       /\ Times(hist[1].visits, t, "execute", <<segments[t][2]>>) = 1

\* No thread is back from a traversal while a track of its range still
\* lacks its visit or the return of its hook.
C5_NoEarlyReturn ==
  \A w \in Workers :
    (entry # "none" /\ Explicit2D /\ pc[w] = "returned") =>
      \A t \in Range : Finished(t) /\ Calls(t, "onTrack") = 1

\* C5: a traversal call is synchronous (no thread returns before every track
\* of the traversal has been visited and every onTrack has returned), and
\* under fair scheduling of the threads every thread returns, whatever the
\* numbers of angles, groups, tracks and threads.
C5_Synchronous ==
  /\ []C5_NoEarlyReturn
  /\ (entry # "none") ~> AllReturned

\* Two threads are back from a traversal of one track that met an empty
\* group.
C5_Witness ==
  /\ AllReturned
  /\ Explicit2D
  /\ nthreads = 2
  /\ entry = LOOP_GROUP
  /\ Cardinality(Range) = 1
  /\ \E i \in DOMAIN groupSizes : groupSizes[i] = 0

\* The segment sequence ray tracing left on track t.
RayTraced(t) == [k \in 1..RayTracedSegments(t) |-> Segment(t, k - 1, 0)]

\* C6: with a NULL kernel neither entry point calls newTrack or execute;
\* onTrack is called exactly once for every track, with the track's
\* segment sequence as it was, and no segment sequence changes.
C6_NullKernelHookOnly ==
  kernel = NULL =>
    /\ \A t \in DOMAIN tlog : \A k \in 1..Len(tlog[t]) :
         /\ tlog[t][k].op \in {"onTrack", "return"}
         /\ tlog[t][k].op = "onTrack" => tlog[t][k].arg = RayTraced(t)
    /\ (AllReturned /\ Explicit2D) =>
         \A t \in Range : Calls(t, "onTrack") = 1
    /\ \A t \in DOMAIN segments : segments[t] = RayTraced(t)

\* A traversal without kernel has ended; one of its tracks has two segments.
C6_Witness ==
  /\ kernel = NULL
  /\ AllReturned
  /\ Cardinality(Range) >= 2
  /\ \E t \in DOMAIN tlog : \E k \in 1..Len(tlog[t]) :
       tlog[t][k].op = "onTrack" /\ Len(tlog[t][k].arg) = 2

\* C7: with a segment-formation mode other than EXPLICIT_2D, a traversal
\* entry point does not return normally.
C7_FatalOnUnsupportedMode ==
  \A w \in Workers :
    (entry # "none" /\ segment_formation # EXPLICIT_2D) => pc[w] # "returned"

RECURSIVE SumXY(_)
\* The sum of getNumX(a)+getNumY(a) over the angles a < n.
SumXY(n) == IF n = 0 THEN 0 ELSE numXY[n - 1] + SumXY(n - 1)

\* The number of onTrack calls made so far in the current call.
HookCalls ==
  Cardinality(UNION {{<<t, k>> : k \in {j \in 1..Len(tlog[t]) :
                                          tlog[t][j].op = "onTrack"}} :
                     t \in DOMAIN tlog})

\* C8: loopOverTracks touches only tracks tracks[a][i] with
\* 0 <= a < floor(num_azim/2) and 0 <= i < getNumX(a)+getNumY(a), and when
\* it has ended it has touched all of them, with as many onTrack calls as
\* the sum of getNumX(a)+getNumY(a) over those angles; num_azim may be odd
\* or below 2.
C8_FirstHalfOfAngles ==
  entry = LOOP_ALL =>
    /\ \A t \in DOMAIN tlog :
         /\ 0 <= t[1] /\ t[1] < num_azim \div 2
         /\ 0 <= t[2] /\ t[2] < numXY[t[1]]
    /\ (AllReturned /\ Explicit2D) =>
         /\ HookCalls = SumXY(num_azim \div 2)
         /\ DOMAIN tlog = RangeAll

\* loopOverTracks has ended for three angles of two tracks each: two visits.
C8_Witness ==
  /\ entry = LOOP_ALL
  /\ AllReturned
  /\ num_azim = 3
  /\ numXY[0] = 2 /\ numXY[1] = 2
  /\ HookCalls = 2

\* C9: in loopOverTracks no call is made for a track of angle a2 while a
\* track of an angle a1 < a2 has not had its onTrack return; with a single
\* thread the same holds for any two tracks in the order of (a, i).
C9_AscendingAngles ==
  entry = LOOP_ALL =>
    /\ \A t1 \in RangeAll : \A t2 \in DOMAIN tlog :
         t1[1] < t2[1] => Finished(t1)
    /\ nthreads = 1 =>
         \A t1 \in RangeAll : \A t2 \in DOMAIN tlog :
           (t1[1] < t2[1] \/ (t1[1] = t2[1] /\ t1[2] < t2[2])) => Finished(t1)

\* Two threads each have a track of the second angle in flight.
C9_Witness ==
  /\ entry = LOOP_ALL
  /\ nthreads = 2
  /\ \E t1 \in DOMAIN tlog : \E t2 \in DOMAIN tlog :
       t1 # t2 /\ t1[1] = 1 /\ t2[1] = 1 /\ InFlight(t1) /\ InFlight(t2)

\* Thread w has run out of iterations of its current loop.
ShareDone(v, w) ==
  \/ inst[v] > inst[w]
  \/ inst[v] = inst[w] /\ pc[v] = "barrier"

\* C10 as stated: loopOverTracks has no barrier between angles, so a thread
\* that has finished its share of an angle can always go on to the next.
C10_NoBarrierBetweenAngles ==
  \A w \in Workers :
    (entry = LOOP_ALL /\ pc[w] = "barrier") => ENABLED Barrier(w)

\* C10, amended: a thread waits for other threads only at the barrier that
\* ends a work-shared loop, and that barrier ends the loop over the tracks
\* of an angle in loopOverTracks as it ends the loop over the tracks of a
\* group in loopOverTracksByParallelGroup: a thread that has finished its
\* share goes on to the next angle or group when, and only when, every
\* thread has finished its share; anywhere else it can always take a step.
C10_BarrierAfterEveryLoop ==
  entry # "none" =>
    \A w \in Workers :
      /\ pc[w] \notin {"barrier", "returned"} => ENABLED Step(w)
      /\ pc[w] = "barrier" =>
           (ENABLED Barrier(w) <=> \A v \in Workers : ShareDone(v, w))
      /\ \A v \in Workers : inst[v] > inst[w] => pc[w] = "barrier"

\* In loopOverTracks a thread is held at the barrier after the first of two
\* angles while the other thread is inside its hook.
C10_Witness ==
  /\ entry = LOOP_ALL
  /\ num_azim \div 2 = 2
  /\ \E w \in Workers : \E v \in Workers :
       /\ pc[w] = "barrier" /\ a[w] = 0 /\ ~ENABLED Barrier(w)
       /\ pc[v] = "hook"

\* C11: with a kernel present, a track that has no segment receives, in
\* either traversal, newTrack once, no execute, and onTrack once with the
\* empty sequence; and a traversal that met such a track still visits every
\* track of its range once.
C11_EmptyTrack ==
  (kernel # NULL /\ entry # "none") =>
    /\ \A t \in DOMAIN tlog :
         Len(segments[t]) = 0 =>
           /\ Calls(t, "execute") = 0
           /\ Calls(t, "newTrack") = 1
           /\ Calls(t, "onTrack") <= 1
           /\ \A k \in 1..Len(tlog[t]) :
                tlog[t][k].op = "onTrack" => tlog[t][k].arg = <<>>
           /\ Finished(t) => Calls(t, "onTrack") = 1
    /\ (AllReturned /\ Explicit2D) =>
         \A t \in Range : Finished(t) /\ Calls(t, "onTrack") = 1

\* One thread has visited a track without segments and then the track after
\* it, which has segments.
C11_Witness ==
  /\ kernel # NULL
  /\ nthreads = 1
  /\ entry = LOOP_ALL
  /\ \E t \in DOMAIN tlog : \E u \in DOMAIN tlog :
       /\ t[1] = u[1] /\ t[2] < u[2]
       /\ Len(segments[t]) = 0 /\ Finished(t)
       /\ Len(segments[u]) > 0 /\ Finished(u)

\* C12: two completed calls of the same entry point on one engine, with a
\* kernel that changes nothing (or none) and the default hook, made the same
\* calls for the same tracks: the same set of tracks and, track by track,
\* the same sequence of newTrack, execute and onTrack arguments, whatever
\* the interleaving of the threads.
C12_Idempotent ==
  kernel # "regenerating" =>
    \A i \in DOMAIN hist : \A j \in DOMAIN hist :
      hist[i].entry = hist[j].entry =>
        /\ DOMAIN hist[i].visits = DOMAIN hist[j].visits
        /\ \A t \in DOMAIN hist[i].visits :
             hist[i].visits[t] = hist[j].visits[t]

\* Two threads have twice completed the traversal by groups over three or
\* more tracks with the counting kernel.
C12_Witness ==
  /\ kernel = "counting"
  /\ nthreads = 2
  /\ Len(hist) = 2
  /\ hist[1].entry = LOOP_GROUP /\ hist[2].entry = LOOP_GROUP
  /\ Cardinality(DOMAIN hist[1].visits) >= 3
  /\ \E t \in DOMAIN hist[2].visits : Len(hist[2].visits[t]) = 5

\* C13: once newTrack, execute or onTrack has failed for a track, no further
\* call is made for that track (no retry), the thread that made the failed
\* call is never back in its loop (the failure is not swallowed: it is at
\* the caller or has ended the process), and no thread returns normally
\* from the traversal, which so never ends as a completed call.
C13_FailureAborts ==
  \A t \in DOMAIN tlog : \A k \in 1..Len(tlog[t]) :
    tlog[t][k].op = "throw" =>
      /\ k = Len(tlog[t])
      /\ pc[tlog[t][k].w] \in {"thrown", "terminated"}
      /\ \A v \in Workers : pc[v] # "returned"
      /\ entry # "none"
      /\ ~ENABLED EndCall

\* execute failed on the second segment of a track and the exception
\* unwound its thread; the other thread, which has visited a track, is held
\* at the barrier.
C13_Witness ==
  \E t \in DOMAIN tlog : \E u \in DOMAIN tlog :
    /\ Calls(t, "throw") = 1 /\ Calls(t, "execute") = 1
    /\ Len(segments[t]) = 2
    /\ pc[tlog[t][1].w] = "thrown"
    /\ Finished(u) /\ tlog[u][1].w # tlog[t][1].w
    /\ pc[tlog[u][1].w] = "barrier"
    /\ ~ENABLED Barrier(tlog[u][1].w)

\* The first global track index of group i (from 0): n_0 + ... + n_(i-1).
GroupStart(i) == SumSeq(SubSeq(groupSizes, 1, i))

\* C14: in loopOverTracksByParallelGroup a thread working on group i has
\* min_track = n_0+...+n_(i-1) and max_track = n_0+...+n_i, so the ranges of
\* the groups follow one another without gap or overlap from 0 to the sum of
\* the group sizes; every index handed to it, and the index of the track it
\* reads from the array, lies in [min_track, max_track) and below that sum;
\* an empty group gives an empty range and leaves the later ones in place;
\* and a completed traversal has made as many onTrack calls as the group
\* sizes add up to.
C14_GroupRanges ==
  entry = LOOP_GROUP =>
    /\ \A w \in Workers :
         pc[w] \in {"for", "newTrack", "trace", "onTrack", "hook", "barrier"} =>
           /\ min_track[w] = GroupStart(g[w])
           /\ max_track[w] = GroupStart(g[w] + 1)
           /\ max_track[w] - min_track[w] = groupSizes[g[w] + 1]
           /\ max_track[w] <= SumSeq(groupSizes)
           /\ \A k \in 1..Len(queue[w]) :
                min_track[w] <= queue[w][k] /\ queue[w][k] < max_track[w]
           /\ track[w] # NoTrack =>
                \E id \in min_track[w]..(max_track[w] - 1) :
                  track[w] = tracksByGroup[id + 1]
    /\ \A t \in DOMAIN tlog : t \in RangeGroup
    /\ (AllReturned /\ Explicit2D) => HookCalls = SumSeq(groupSizes)

\* A thread is inside the hook of the last track of the third group, the
\* second group being empty and the first not.
C14_Witness ==
  /\ entry = LOOP_GROUP
  /\ Len(groupSizes) = 3
  /\ groupSizes[1] > 0 /\ groupSizes[2] = 0 /\ groupSizes[3] = 2
  /\ \E w \in Workers :
       /\ g[w] = 2 /\ pc[w] = "hook"
       /\ min_track[w] = groupSizes[1]
       /\ track[w] = tracksByGroup[max_track[w]]

\* The segment sequence the regenerating kernel's newTrack leaves on track t.
Regenerated(t) == [k \in 1..RegeneratedSegments(t) |-> Segment(t, k - 1, 1)]

\* The arguments of the calls of kind op made for track t, in order.
ArgsOf(t, op) ==
  LET idx == {k \in 1..Len(tlog[t]) : tlog[t][k].op = op}
      Nth(n) == CHOOSE k \in idx :
                  Cardinality({j \in idx : j < k}) = n - 1
  IN  [n \in 1..Cardinality(idx) |-> tlog[t][Nth(n)].arg]

\* C15: with a kernel whose newTrack regenerates the track's segments in
\* place, the segments passed to execute for a track, in order, and the
\* sequence passed to its onTrack are those newTrack left, never those the
\* track had before; and they are those the track holds from then on.
C15_RegeneratedSegmentsUsed ==
  kernel = "regenerating" =>
    \A t \in DOMAIN tlog :
      /\ segments[t] = Regenerated(t)
      /\ Len(ArgsOf(t, "execute")) <= Len(Regenerated(t))
      /\ \A n \in 1..Len(ArgsOf(t, "execute")) :
           ArgsOf(t, "execute")[n] = <<ExecuteArgs(Regenerated(t)[n])>>
      /\ \A n \in 1..Len(ArgsOf(t, "onTrack")) :
           ArgsOf(t, "onTrack")[n] = Regenerated(t)
      /\ Calls(t, "onTrack") = 1 =>
           Len(ArgsOf(t, "execute")) = Len(Regenerated(t))

\* In the first call on a freshly ray-traced store, a track that ray tracing
\* left with one segment and the kernel regenerated with two has had both
\* executed and has been passed to onTrack.
C15_Witness ==
  /\ kernel = "regenerating"
  /\ callNo = 1
  /\ \E t \in DOMAIN tlog :
       /\ RayTracedSegments(t) = 1 /\ RegeneratedSegments(t) = 2
       /\ Calls(t, "execute") = 2
       /\ Finished(t)

\* C16: whatever the team, no two threads have the same track in hand at
\* one moment, and every call made for a track (newTrack, execute, onTrack)
\* comes from the thread that made the first; so while a thread is between
\* the newTrack and the return of onTrack of a track, no other thread makes
\* a call for that track.
C16_OneWorkerPerTrack ==
  /\ \A v \in Workers : \A w \in Workers :
       (v # w /\ track[v] # NoTrack) => track[v] # track[w]
  /\ \A t \in DOMAIN tlog :
       /\ Cardinality({tlog[t][k].w : k \in 1..Len(tlog[t])}) = 1
       /\ InFlight(t) => track[tlog[t][1].w] = t
       /\ Calls(t, "newTrack") <= 1

\* With the regenerating kernel, one thread is about to call newTrack for a
\* track while the other is executing the segments of another track of the
\* same loop.
C16_Witness ==
  /\ kernel = "regenerating"
  /\ \E v \in Workers : \E w \in Workers :
       /\ pc[v] = "newTrack" /\ pc[w] = "trace"
       /\ s[w] = 1 /\ MoreSegments(track[w], s[w])
       /\ track[v] # track[w]

\* C17: no step of a traversal (the two entry points, traceSegmentsExplicit,
\* the default onTrack, the loops between them) changes the cached
\* segment-formation mode or what the bound Track Store holds about its
\* angles, its tracks and their groups; and unless the kernel regenerates
\* segments, no step changes a track's segment sequence.
C17_Stateless ==
  [][/\ segment_formation' = segment_formation
     /\ storeVars' = storeVars
     /\ kernel # "regenerating" => segments' = segments]_vars

\* Both traversals have been completed with the counting kernel over four
\* tracks, which still hold the segments ray tracing left.
C17_Witness ==
  /\ kernel = "counting"
  /\ Len(hist) = 2
  /\ hist[1].entry # hist[2].entry
  /\ Cardinality(DOMAIN hist[2].visits) = 4
  /\ \A t \in DOMAIN segments : segments[t] = RayTraced(t)
  /\ \E t \in DOMAIN hist[2].visits : Len(hist[2].visits[t]) = 5

\* The calls kernel instance k has received for track t, in order.
KernelCalls(k, t) == SelectSeq(klog[k], LAMBDA e : e.track = t)

\* The kernel calls made for track t, in order.
KernelCallsFor(t) ==
  SelectSeq(tlog[t], LAMBDA e : e.op \in {"newTrack", "execute"})

\* The track of the last newTrack among the first j calls of a kernel's log.
LastNewTrack(log, j) ==
  LET idx == {i \in 1..j : log[i].op = "newTrack"}
  IN  IF idx = {} THEN NoTrack
      ELSE log[CHOOSE i \in idx : \A h \in idx : h <= i].track

\* C18: the engine hands every kernel call to the instance it was passed and
\* to no other: when the threads of a team all pass one instance, that
\* instance receives every newTrack and execute of every thread, those of
\* each track in the order they were made, and no instance per thread
\* exists; so nothing keeps the calls of two tracks apart (C18_Witness: the
\* shared instance receives execute for a track after newTrack for another).
C18_SharedKernelGetsAllCalls ==
  shared =>
    /\ \A k \in DOMAIN klog : k # 1 => klog[k] = <<>>
    /\ \A j \in 1..Len(klog[1]) : klog[1][j].track \in DOMAIN tlog
    /\ \A t \in DOMAIN tlog :
         /\ Len(KernelCalls(1, t)) = Len(KernelCallsFor(t))
         /\ \A n \in 1..Len(KernelCallsFor(t)) :
              /\ KernelCalls(1, t)[n].op = KernelCallsFor(t)[n].op
              /\ KernelCalls(1, t)[n].arg = KernelCallsFor(t)[n].arg

\* Two threads pass one kernel instance, and it has received an execute for
\* a segment of one track when its last newTrack was for another track.
C18_Witness ==
  /\ shared
  /\ nthreads = 2
  /\ \E j \in 1..Len(klog[1]) :
       /\ klog[1][j].op = "execute"
       /\ LastNewTrack(klog[1], j) # NoTrack
       /\ LastNewTrack(klog[1], j) # klog[1][j].track

\* The calls a kernel receives for track t when they come in one block.
BlockOf(t) ==
  <<[op |-> "newTrack", track |-> t, arg |-> <<>>]>>
    \o [k \in 1..Len(segments[t]) |->
          [op |-> "execute", track |-> t,
           arg |-> <<ExecuteArgs(segments[t][k])>>]]

RECURSIVE IsBlocks(_, _)
\* Whether log is a concatenation of whole blocks, the last of which may
\* still be growing if open.
IsBlocks(log, open) ==
  IF log = <<>> THEN TRUE
  ELSE /\ log[1].op = "newTrack"
       /\ LET b == BlockOf(log[1].track)
          IN  IF Len(log) >= Len(b)
              THEN /\ SubSeq(log, 1, Len(b)) = b
                   /\ IsBlocks(SubSeq(log, Len(b) + 1, Len(log)), open)
              ELSE open /\ log = SubSeq(b, 1, Len(log))

\* How many newTrack calls for track t the kernel instances have received.
BlocksOf(t) ==
  Cardinality(UNION {{<<k, j>> : j \in {i \in 1..Len(klog[k]) :
                                          /\ klog[k][i].op = "newTrack"
                                          /\ klog[k][i].track = t}} :
                     k \in DOMAIN klog})

\* C19: when every thread passes its own kernel instance, the calls an
\* instance has received are at every moment a concatenation of blocks, one
\* per track: newTrack(t), then execute for each segment of t in order,
\* nothing of another track in between and no execute before the first
\* newTrack; only the block of the track its thread is tracing may be
\* unfinished; no track has a block in two instances or two blocks in one;
\* and when the traversal has ended every track of the range has its block.
C19_BlocksPerKernel ==
  (~shared /\ kernel # NULL /\ entry # "none") =>
    /\ \A w \in Workers : IsBlocks(klog[w], pc[w] = "trace")
    /\ \A t \in DOMAIN tlog : BlocksOf(t) = 1
    /\ \A w \in Workers : \A j \in 1..Len(klog[w]) :
         klog[w][j].track \in DOMAIN tlog
    /\ (AllReturned /\ Explicit2D) => \A t \in Range : BlocksOf(t) = 1

\* Two threads with a kernel each have ended a traversal of four tracks;
\* each kernel has received two blocks or more, one of them with two
\* execute calls.
C19_Witness ==
  /\ ~shared
  /\ kernel # NULL
  /\ nthreads = 2
  /\ AllReturned
  /\ Cardinality(Range) = 4
  /\ \A w \in Workers :
       /\ Cardinality({j \in 1..Len(klog[w]) : klog[w][j].op = "newTrack"}) >= 2
       /\ \E j \in 1..Len(klog[w]) : \E t \in Range :
            /\ Len(segments[t]) = 2
            /\ j + 2 <= Len(klog[w])
            /\ SubSeq(klog[w], j, j + 2) = BlockOf(t)

====
